---- MODULE Spec2Model ----
(***************************************************************************)
(* BentoKaze: the optimisation model builder (BentoKazeOptimizer), in its  *)
(* two variants, the run_optimizer pipeline of script.py and the pipeline  *)
(* of app.py.                                                              *)
(*                                                                         *)
(*   variant "db"  : src/src/bentokaze.py  (tables read from sqlite)       *)
(*   variant "csv" : src/bentokaze.py      (tables read from CSV files)    *)
(*                                                                         *)
(* Texts (ingredient names, categories, nutrient keys, constraint names)   *)
(* are sequences of one-character strings, so that PuLP's renaming of      *)
(* illegal characters and str.capitalize() are computed, not assumed.      *)
(* Python dicts are sequences of [k, v] entries with distinct keys, in     *)
(* insertion order.  Numbers are naturals; the coefficients of a linear    *)
(* expression are fractions [num, den] in lowest terms.                    *)
(***************************************************************************)
EXTENDS Integers, Sequences, FiniteSets, TLC

\* ------------------------------------------------------------------ bounds
\* rows of the items table (db) / of the data file (csv)
MaxItemRows == 2
\* entries of export_formats
MaxFormats == 2
\* largest value the solver leaves in a variable
MaxQuantity == 2

\* ------------------------------------------------------------------- texts
T_Total == <<"T", "o", "t", "a", "l">>
T_TotalVolume == <<"T", "o", "t", "a", "l", "V", "o", "l", "u", "m", "e">>
T_MinMass_ == <<"M", "i", "n", "M", "a", "s", "s", "_">>
T_max_volume == <<"m", "a", "x", "_", "v", "o", "l", "u", "m", "e">>
T_category_ == <<"c", "a", "t", "e", "g", "o", "r", "y", "_">>
T_TotalFat == <<"T", "o", "t", "a", "l", "F", "a", "t">>
T_TotalProtein == <<"T", "o", "t", "a", "l", "P", "r", "o", "t", "e", "i", "n">>
T_TotalCarb == <<"T", "o", "t", "a", "l", "C", "a", "r", "b">>
T_TotalSalt == <<"T", "o", "t", "a", "l", "S", "a", "l", "t">>
T_TotalCost == <<"T", "o", "t", "a", "l", "C", "o", "s", "t">>
T_fat == <<"f", "a", "t">>
T_protein == <<"p", "r", "o", "t", "e", "i", "n">>
T_total_fat == <<"t", "o", "t", "a", "l", "_", "f", "a", "t">>
T_total_protein == <<"t", "o", "t", "a", "l", "_", "p", "r", "o", "t", "e", "i", "n">>
T_total_carb == <<"t", "o", "t", "a", "l", "_", "c", "a", "r", "b">>
T_total_salt == <<"t", "o", "t", "a", "l", "_", "s", "a", "l", "t">>

LowerCase == <<"a", "b", "c", "d", "e", "f", "g", "h", "i", "j", "k", "l", "m",
               "n", "o", "p", "q", "r", "s", "t", "u", "v", "w", "x", "y", "z">>
UpperCase == <<"A", "B", "C", "D", "E", "F", "G", "H", "I", "J", "K", "L", "M",
               "N", "O", "P", "Q", "R", "S", "T", "U", "V", "W", "X", "Y", "Z">>

\* str.upper() / str.lower() of one character
Upper(c) ==
    IF \E i \in 1..Len(LowerCase) : LowerCase[i] = c
    THEN UpperCase[CHOOSE i \in 1..Len(LowerCase) : LowerCase[i] = c]
    ELSE c
Lower(c) ==
    IF \E i \in 1..Len(UpperCase) : UpperCase[i] = c
    THEN LowerCase[CHOOSE i \in 1..Len(UpperCase) : UpperCase[i] = c]
    ELSE c

\* str.capitalize(): first character upper case, the rest lower case
Capitalize(s) == [i \in 1..Len(s) |-> IF i = 1 THEN Upper(s[i]) ELSE Lower(s[i])]

\* pulp.LpElement: the characters of illegal_chars become "_" in a name
IllegalChars == {"-", "+", "[", "]", " ", ">", "/"}
LpName(s) == [i \in 1..Len(s) |-> IF s[i] \in IllegalChars THEN "_" ELSE s[i]]

\* ----------------------------------------------------------------- numbers
RECURSIVE GCD(_, _)
GCD(a, b) == IF b = 0 THEN a ELSE GCD(b, a % b)

\* the fraction n/d (n >= 0, d > 0) in lowest terms
Frac(n, d) == LET g == GCD(n, d) IN [num |-> n \div g, den |-> d \div g]
FracOf(n) == Frac(n, 1)
FracAdd(x, y) == Frac(x.num * y.den + y.num * x.den, x.den * y.den)
FracMul(x, y) == Frac(x.num * y.num, x.den * y.den)
FracLeq(x, y) == x.num * y.den <= y.num * x.den

\* ------------------------------------------------------------------- dicts
Keys(d) == {d[i].k : i \in 1..Len(d)}
Has(d, k) == k \in Keys(d)
Get(d, k) == d[CHOOSE i \in 1..Len(d) : d[i].k = k].v
\* d[k] = v: an existing key keeps its place, a new key goes last
Put(d, k, v) ==
    IF Has(d, k)
    THEN [i \in 1..Len(d) |-> IF d[i].k = k THEN [k |-> k, v |-> v] ELSE d[i]]
    ELSE Append(d, [k |-> k, v |-> v])
\* dict(pairs): later pairs overwrite earlier ones
RECURSIVE DictOf(_)
DictOf(pairs) ==
    IF pairs = <<>> THEN <<>>
    ELSE LET n == Len(pairs)
         IN Put(DictOf(SubSeq(pairs, 1, n - 1)), pairs[n].k, pairs[n].v)

\* ------------------------------------------------- pulp linear expressions
\* An LpAffineExpression: variable name -> nonzero coefficient.
EmptyExpr == <<>>
\* number * LpVariable (LpAffineExpression.__mul__ keeps no term for 0)
LpTerm(coef, var) == IF coef.num = 0 THEN EmptyExpr ELSE [x \in {var} |-> coef]
\* LpAffineExpression.addInPlace
ExprAdd(e, f) ==
    [x \in DOMAIN e \cup DOMAIN f |->
        IF x \in DOMAIN e /\ x \in DOMAIN f THEN FracAdd(e[x], f[x])
        ELSE IF x \in DOMAIN e THEN e[x] ELSE f[x]]
\* pulp.lpSum over a sequence of terms
RECURSIVE LpSum(_)
LpSum(terms) ==
    IF terms = <<>> THEN EmptyExpr
    ELSE ExprAdd(LpSum(SubSeq(terms, 1, Len(terms) - 1)), terms[Len(terms)])
\* the coefficient of variable x in e (0 when x has no term)
Coef(e, x) == IF x \in DOMAIN e THEN e[x] ELSE FracOf(0)

\* ------------------------------------------------------- the input tables
\* Ingredient names, categories and nutrient columns the inputs are drawn from.
NameA == <<"A">>
NameB == <<"B", " ", "C">>
Names == {NameA, NameB}
CatX == <<"X">>
CatY == <<"Y">>
Categories == {CatX, CatY}
Densities == {1, 2}
DbNutrients == {T_fat, T_protein}
CsvNutrients == {T_total_fat, T_total_protein, T_total_carb, T_total_salt}

\* per-unit nutrient amounts and unit prices of the two ingredients
Amount(name, col) ==
    IF name = NameA
    THEN CASE col \in {T_fat, T_total_fat} -> 2
           [] col \in {T_protein, T_total_protein} -> 1
           [] col = T_total_carb -> 5
           [] OTHER -> 1
    ELSE CASE col \in {T_protein, T_total_protein} -> 3
           [] OTHER -> 0
UnitPrice(name) == IF name = NameA THEN 1 ELSE 3

ItemRow(n, c) == [name |-> n, category |-> c, nut |-> [col \in DbNutrients |-> Amount(n, col)]]
PriceRow(n) == [name |-> n, unit_price |-> UnitPrice(n)]
DataRow(n, c) ==
    [name |-> n, category |-> c, nut |-> [col \in CsvNutrients |-> Amount(n, col)],
     unit_price |-> UnitPrice(n)]
CategoryRow(c, d) == [category |-> c, density |-> d]

SeqsUpTo(S, n) == UNION {[1..k -> S] : k \in 0..n}
ItemTables == SeqsUpTo({ItemRow(n, c) : n \in Names, c \in Categories}, MaxItemRows)
DataTables == SeqsUpTo({DataRow(n, c) : n \in Names, c \in Categories}, MaxItemRows)
PriceTables ==
    {<<>>, <<PriceRow(NameA)>>, <<PriceRow(NameB)>>, <<PriceRow(NameA), PriceRow(NameB)>>}
CategoryRows(c) == {<<>>} \cup {<<CategoryRow(c, d)>> : d \in Densities}
CategoryTables == {x \o y : x \in CategoryRows(CatX), y \in CategoryRows(CatY)}

\* one concrete catalog, used where a family of inputs holds the rest fixed
ScenarioItems == <<ItemRow(NameA, CatX), ItemRow(NameB, CatY)>>
ScenarioData == <<DataRow(NameA, CatX), DataRow(NameB, CatY)>>
ScenarioPrices == <<PriceRow(NameA), PriceRow(NameB)>>
ScenarioCategories == <<CategoryRow(CatX, 1), CategoryRow(CatY, 2)>>
Entry(k, v) == [k |-> k, v |-> v]
ScenarioTargets == <<Entry(T_fat, 2), Entry(T_protein, 3)>>
ScenarioOperators == <<Entry(T_fat, ">="), Entry(T_protein, ">=")>>
CsvScenarioTargets ==
    <<Entry(T_total_fat, 2), Entry(T_total_protein, 3),
      Entry(T_total_carb, 9), Entry(T_total_salt, 5)>>
\* targets that the first ingredient meets alone
CsvLeanTargets ==
    <<Entry(T_total_fat, 2), Entry(T_total_protein, 1),
      Entry(T_total_carb, 9), Entry(T_total_salt, 5)>>

\* dicts over the given keys: any subset of the keys, in any order
DictsOver(keys, vals) ==
    {d \in SeqsUpTo({Entry(k, v) : k \in keys, v \in vals}, Cardinality(keys)) :
        \A i, j \in 1..Len(d) : d[i].k = d[j].k => i = j}
\* sub-dicts of d, the order of d kept
RECURSIVE SubDicts(_)
SubDicts(d) ==
    IF d = <<>> THEN {<<>>}
    ELSE LET rest == SubDicts(Tail(d))
         IN rest \cup {<<Head(d)>> \o r : r \in rest}
OperatorTexts == {">=", "<=", "=="}
FormatTexts == {"lp", "mps", "xml"}
MaxVolumes == {3}
MinMasses == {1}

\* ------------------------------------------------------------------- state
VARIABLES
    variant,                \* "db": src/src/bentokaze.py, "csv": src/bentokaze.py
    caller,                 \* "api": the methods called freely, "script": run_optimizer
                            \* (db) / app.py (csv)
    pc,                     \* position of the caller
    tables,                 \* the database tables (db) or the CSV files (csv)
    target_nutrition,       \* self.target_nutrition
    constraints,            \* self.constraints: nutrient -> operator (db)
    max_volume,             \* self.max_volume
    min_mass_per_category,  \* self.min_mass_per_category
    export_formats,         \* config["export"]["formats"]
    all_data,               \* self.all_data (db) / self.data (csv)
    density_dict,           \* self.density_dict
    ingredient_vars,        \* self.ingredient_vars
    prob,                   \* self.prob: [constraints, objective]
    varValue,               \* LpVariable.varValue of every variable
    called,                 \* the builder methods that have returned normally
    last_call,              \* the builder method called last, and whether it had
                            \* returned normally before
    raised,                 \* the exception the last call raised, or "none"
    locals,                 \* the local variables of run_optimizer / of app.py
    files,                  \* the formats export_problem has written
    ret,                    \* what run_optimizer returned
    report                  \* main: whether generate_markdown_report ran

vars == <<variant, caller, pc, tables, target_nutrition, constraints, max_volume,
          min_mass_per_category, export_formats, all_data, density_dict,
          ingredient_vars, prob, varValue, called, last_call, raised, locals, files,
          ret, report>>

inputs == <<variant, caller, tables, target_nutrition, constraints, max_volume,
            min_mass_per_category, export_formats>>

\* an unbound local / a None attribute is <<>>, a bound one is <<value>>
Unbound == <<>>
Bound(v) == <<v>>
NoLocals == [n \in {"status", "results", "nutrition_values", "total_volume"} |-> Unbound]
\* LpProblem("The BentoKaze Problem", LpMinimize): no constraint, objective None
NewProblem == [constraints |-> <<>>, objective |-> <<>>, sense |-> "LpMinimize"]

\* the inputs of one run: a variant, a caller and the constructor's arguments
InitCatalogDb ==
    /\ variant = "db" /\ caller = "api"
    /\ tables \in {[items |-> i, prices |-> p, categories |-> c] :
                      i \in ItemTables, p \in PriceTables, c \in CategoryTables}
    /\ target_nutrition = ScenarioTargets
    /\ constraints = ScenarioOperators
    /\ export_formats = <<"lp">>
InitTargetsDb ==
    /\ variant = "db" /\ caller = "api"
    /\ tables = [items |-> ScenarioItems, prices |-> ScenarioPrices,
                 categories |-> ScenarioCategories]
    /\ target_nutrition \in SubDicts(ScenarioTargets)
    /\ constraints \in DictsOver(DbNutrients, OperatorTexts)
    /\ export_formats = <<"lp">>
InitCatalogCsv ==
    /\ variant = "csv" /\ caller = "api"
    /\ tables \in {[data |-> i, density |-> c] : i \in DataTables, c \in CategoryTables}
    /\ target_nutrition = CsvScenarioTargets
    /\ constraints = <<>>
    /\ export_formats = <<"lp">>
InitTargetsCsv ==
    /\ variant = "csv" /\ caller = "api"
    /\ tables = [data |-> ScenarioData, density |-> ScenarioCategories]
    /\ target_nutrition \in SubDicts(CsvScenarioTargets)
    /\ constraints = <<>>
    /\ export_formats = <<"lp">>
InitScript ==
    /\ variant = "db" /\ caller = "script"
    /\ tables \in {[items |-> ScenarioItems, prices |-> ScenarioPrices,
                   categories |-> ScenarioCategories],
                  [items |-> <<ItemRow(NameA, CatX)>>, prices |-> ScenarioPrices,
                   categories |-> ScenarioCategories],
                  [items |-> <<ItemRow(NameA, CatX)>>, prices |-> ScenarioPrices,
                   categories |-> <<CategoryRow(CatX, 1)>>]}
    /\ target_nutrition = ScenarioTargets
    /\ constraints \in {ScenarioOperators, <<Entry(T_fat, ">=")>>, <<Entry(T_fat, "<=")>>}
    /\ export_formats \in SeqsUpTo(FormatTexts, MaxFormats)
\* the CSV variant as app.py drives it: build, then solve
InitScriptCsv ==
    /\ variant = "csv" /\ caller = "script"
    /\ tables \in {[data |-> ScenarioData, density |-> ScenarioCategories],
                  [data |-> <<DataRow(NameA, CatX), DataRow(NameB, CatX)>>,
                   density |-> ScenarioCategories],
                  [data |-> <<DataRow(NameA, CatX)>>, density |-> <<CategoryRow(CatX, 1)>>]}
    /\ target_nutrition \in {CsvScenarioTargets, CsvLeanTargets}
    /\ constraints = <<>>
    /\ export_formats = <<"lp">>

Init ==
    /\ \/ InitCatalogDb \/ InitTargetsDb \/ InitCatalogCsv \/ InitTargetsCsv
       \/ InitScript \/ InitScriptCsv
    /\ max_volume \in MaxVolumes
    /\ min_mass_per_category \in MinMasses
    /\ pc = "new"
    /\ all_data = <<>>
    /\ density_dict = <<>>
    /\ ingredient_vars = <<>>
    /\ prob = NewProblem
    /\ varValue = <<>>
    /\ called = {}
    /\ last_call = [op |-> "", again |-> FALSE]
    /\ raised = "none"
    /\ locals = NoLocals
    /\ files = {}
    /\ ret = Unbound
    /\ report = FALSE

\* ------------------------------------------------------------ construction
\* pd.merge(items, prices, on="name"): the inner join, in the order of the items
JoinRow(item, price) ==
    [name |-> item.name, category |-> item.category, nut |-> item.nut,
     unit_price |-> price.unit_price]
RECURSIVE Merge(_, _)
Merge(items, prices) ==
    IF items = <<>> THEN <<>>
    ELSE LET n == Len(items)
             m == SelectSeq(prices, LAMBDA p : p.name = items[n].name)
         IN Merge(SubSeq(items, 1, n - 1), prices) \o [i \in 1..Len(m) |-> JoinRow(items[n], m[i])]

\* dict(zip(category_data["category"], category_data["density"]))
DensityDict(rows) == DictOf([i \in 1..Len(rows) |-> Entry(rows[i].category, rows[i].density)])

\* LpVariable(name, lowBound=0, cat="Continuous")
LpVariable(name) == [name |-> LpName(name), lowBound |-> 0, cat |-> "Continuous"]

\* _define_variables: {row["name"]: LpVariable(row["name"], ...) for each row}
DefineVariables(rows) == DictOf([i \in 1..Len(rows) |-> Entry(rows[i].name, LpVariable(rows[i].name))])

\* _load_data
LoadData(t) ==
    [all_data |-> Merge(t.items, t.prices), density_dict |-> DensityDict(t.categories)]

\* BentoKazeOptimizer.__init__ of either variant
Construct ==
    /\ pc = "new"
    /\ IF variant = "db"
       THEN /\ all_data' = LoadData(tables).all_data
            /\ density_dict' = LoadData(tables).density_dict
       ELSE /\ all_data' = tables.data
            /\ density_dict' = DensityDict(tables.density)
    /\ ingredient_vars' = DefineVariables(all_data')
    /\ prob' = NewProblem
    /\ raised' = "none"
    /\ pc' = IF caller = "api" THEN "ready" ELSE "nutrition"
    /\ UNCHANGED <<inputs, varValue, called, last_call, locals, files, ret, report>>

\* ------------------------------------------------------- the LpProblem
\* the outcome of a call: the problem it leaves and the exception it raised
Outcome(p, exc) == [prob |-> p, raised |-> exc]

\* prob += (expr sense rhs, name): LpProblem.addConstraint.  The constraint takes
\* the name (illegal characters renamed); a name already in prob.constraints
\* raises PulpError("overlapping constraint names"), LpProblem.noOverlap being 1.
AddConstraint(p, expr, sense, rhs, name) ==
    LET n == LpName(name)
    IN IF Has(p.constraints, n)
       THEN Outcome(p, "PulpError")
       ELSE Outcome([p EXCEPT !.constraints =
                        Put(@, n, [expr |-> expr, sense |-> sense, rhs |-> rhs])], "none")

\* a set_objective that adds the new sum to the objective already there
SetObjectiveAccumulating(p, expr, name) ==
    [p EXCEPT !.objective =
        IF @ = <<>> THEN <<[expr |-> expr, name |-> name]>>
        ELSE <<[expr |-> ExprAdd(@[1].expr, expr), name |-> name]>>]

\* prob += expr  /  prob += (expr, name): LpProblem.__iadd__ sets prob.objective
SetObjectiveTo(p, expr, name) == [p EXCEPT !.objective = <<[expr |-> expr, name |-> name]>>]

\* self.ingredient_vars[row["name"]]: the variable, known by its name
VarOf(row) == Get(ingredient_vars, row.name).name

\* lpSum(row[nutrient] * self.ingredient_vars[row["name"]] for each row)
NutrientSum(nutrient) ==
    LpSum([i \in 1..Len(all_data) |->
              LpTerm(FracOf(all_data[i].nut[nutrient]), VarOf(all_data[i]))])

\* the nutrients add_nutritional_constraints goes through, in order, each with its
\* operator and its constraint name
NutrientList ==
    IF variant = "db"
    THEN [i \in 1..Len(constraints) |->
             [nutrient |-> constraints[i].k, operator |-> constraints[i].v,
              name |-> T_Total \o Capitalize(constraints[i].k)]]
    ELSE <<[nutrient |-> T_total_fat, operator |-> ">=", name |-> T_TotalFat],
           [nutrient |-> T_total_protein, operator |-> ">=", name |-> T_TotalProtein],
           [nutrient |-> T_total_carb, operator |-> "<=", name |-> T_TotalCarb],
           [nutrient |-> T_total_salt, operator |-> "<=", name |-> T_TotalSalt]>>

\* one pass of the loop of add_nutritional_constraints
NutrientStep(p, e) ==
    IF e.operator \notin {">=", "<="}
    THEN Outcome(p, "none")
    ELSE IF \E i \in 1..Len(all_data) : e.nutrient \notin DOMAIN all_data[i].nut
    THEN Outcome(p, "KeyError")
    ELSE IF ~Has(target_nutrition, e.nutrient)
    THEN Outcome(p, "KeyError")
    ELSE AddConstraint(p, NutrientSum(e.nutrient), e.operator,
                       Get(target_nutrition, e.nutrient), e.name)

\* a for loop over list: the first exception ends it, what was added stays
RECURSIVE NutrientLoop(_, _)
NutrientLoop(p, list) ==
    IF list = <<>> THEN Outcome(p, "none")
    ELSE LET r == NutrientStep(p, Head(list))
         IN IF r.raised # "none" THEN r ELSE NutrientLoop(r.prob, Tail(list))

add_nutritional_constraints(p) == NutrientLoop(p, NutrientList)

\* the factor of an ingredient's quantity in the volume sum
VolumeFactor(density) == IF variant = "db" THEN Frac(1, density) ELSE FracOf(density)

add_volume_constraint(p) ==
    IF \E i \in 1..Len(all_data) : ~Has(density_dict, all_data[i].category)
    THEN Outcome(p, "KeyError")
    ELSE AddConstraint(p,
            LpSum([i \in 1..Len(all_data) |->
                      LpTerm(VolumeFactor(Get(density_dict, all_data[i].category)),
                             VarOf(all_data[i]))]),
            "<=", max_volume,
            IF variant = "db" THEN T_TotalVolume ELSE T_max_volume)

\* Series.unique(): the distinct values, in order of first appearance
RECURSIVE Unique(_)
Unique(s) ==
    IF s = <<>> THEN <<>>
    ELSE LET n == Len(s)
             u == Unique(SubSeq(s, 1, n - 1))
         IN IF \E i \in 1..Len(u) : u[i] = s[n] THEN u ELSE Append(u, s[n])

\* the categories the mass constraints are built for, in order
CategoryList ==
    IF variant = "db"
    THEN [i \in 1..Len(density_dict) |-> density_dict[i].k]
    ELSE Unique([i \in 1..Len(all_data) |-> all_data[i].category])

\* lpSum(self.ingredient_vars[row["name"]] for each row if row["category"] == category)
CategorySum(category) ==
    LET rows == SelectSeq(all_data, LAMBDA row : row.category = category)
    IN LpSum([i \in 1..Len(rows) |-> LpTerm(FracOf(1), VarOf(rows[i]))])

CategoryName(category) ==
    (IF variant = "db" THEN T_MinMass_ ELSE T_category_) \o category

RECURSIVE CategoryLoop(_, _)
CategoryLoop(p, list) ==
    IF list = <<>> THEN Outcome(p, "none")
    ELSE LET r == AddConstraint(p, CategorySum(Head(list)), ">=",
                                min_mass_per_category, CategoryName(Head(list)))
         IN IF r.raised # "none" THEN r ELSE CategoryLoop(r.prob, Tail(list))

\* add_category_mass_constraints (db) / add_category_constraints (csv)
add_category_mass_constraints(p) == CategoryLoop(p, CategoryList)

\* lpSum(row["unit_price"] * self.ingredient_vars[row["name"]] for each row)
CostSum ==
    LpSum([i \in 1..Len(all_data) |->
              LpTerm(FracOf(all_data[i].unit_price), VarOf(all_data[i]))])

\* set_objective (db) / set_objective_function (csv)
set_objective(p) ==
    Outcome(SetObjectiveTo(p, CostSum, IF variant = "db" THEN <<>> ELSE T_TotalCost), "none")

\* ----------------------------------------------------- the builder's calls
\* run_optimizer calls the methods in its own order; any other caller, any order
Order == <<"nutrition", "volume", "category", "objective", "solve", "derive",
           "export", "return">>
NextPc(op) == Order[1 + CHOOSE i \in 1..Len(Order) : Order[i] = op]
CanCall(op) ==
    \/ caller = "api" /\ pc = "ready"
    \/ caller = "script" /\ pc = op
\* where the caller goes on: run_optimizer's try block jumps to its except clause;
\* app.py catches nothing and has nothing to call after solve
Goto(op, exc) ==
    IF caller = "api" THEN "ready"
    ELSE IF variant = "csv"
    THEN IF exc # "none" \/ op = "solve" THEN "done" ELSE NextPc(op)
    ELSE IF exc # "none" THEN "except" ELSE NextPc(op)

BuilderCall(op, r) ==
    /\ CanCall(op)
    /\ prob' = r.prob
    /\ raised' = r.raised
    /\ called' = IF r.raised = "none" THEN called \cup {op} ELSE called
    /\ last_call' = [op |-> op, again |-> op \in called]
    /\ pc' = Goto(op, r.raised)
    /\ UNCHANGED <<inputs, all_data, density_dict, ingredient_vars, varValue,
                   locals, files, ret, report>>

AddNutritionalConstraints == BuilderCall("nutrition", add_nutritional_constraints(prob))
AddVolumeConstraint == BuilderCall("volume", add_volume_constraint(prob))
AddCategoryMassConstraints == BuilderCall("category", add_category_mass_constraints(prob))
SetObjective == BuilderCall("objective", set_objective(prob))

\* ------------------------------------------------------------- the solver
\* prob.variables(): the variables of the objective and of the constraints
ProbVariables(p) ==
    UNION ({DOMAIN p.objective[i].expr : i \in 1..Len(p.objective)}
           \cup {DOMAIN p.constraints[i].v.expr : i \in 1..Len(p.constraints)})

\* the value of expression e where variable x has the value q[x]
RECURSIVE SumOver(_, _, _)
SumOver(S, e, q) ==
    IF S = {} THEN FracOf(0)
    ELSE LET x == CHOOSE y \in S : TRUE
         IN FracAdd(FracMul(e[x], FracOf(q[x])), SumOver(S \ {x}, e, q))
ExprValue(e, q) == SumOver(DOMAIN e, e, q)

\* whether the quantities q satisfy constraint c
Satisfies(q, c) ==
    IF c.sense = ">=" THEN FracLeq(FracOf(c.rhs), ExprValue(c.expr, q))
    ELSE FracLeq(ExprValue(c.expr, q), FracOf(c.rhs))
Feasible(p, q) == \A i \in 1..Len(p.constraints) : Satisfies(q, p.constraints[i].v)

Quantities(p) == [ProbVariables(p) -> 0..MaxQuantity]

\* a constraint over no variable that its own constant violates (0 >= 1)
Unsatisfiable(p) ==
    \E i \in 1..Len(p.constraints) :
        /\ DOMAIN p.constraints[i].v.expr = {}
        /\ ~Satisfies(<<>>, p.constraints[i].v)

\* What prob.solve() can leave behind: a status and the variables' values.
\* Optimal comes with a point that satisfies every constraint; Infeasible is
\* reported only for a problem that holds an unsatisfiable constraint, and the
\* solver then leaves whatever values it stopped at; Undefined may come with
\* any values; Not Solved with no value assigned (varValue None).
\* Unbounded does not occur: no price is negative and every quantity is >= 0.
SolverOutcomes(p) ==
    {[status |-> "Optimal", values |-> [x \in DOMAIN q |-> <<q[x]>>]] :
        q \in {r \in Quantities(p) : Feasible(p, r)}}
    \cup {[status |-> st, values |-> [x \in DOMAIN q |-> <<q[x]>>]] :
        st \in IF Unsatisfiable(p) THEN {"Infeasible", "Undefined"} ELSE {"Undefined"},
        q \in Quantities(p)}
    \cup {[status |-> "Not Solved", values |-> [x \in ProbVariables(p) |-> <<>>]]}

\* {v.name: v.varValue for v in self.prob.variables() if v.varValue > 0}
Positive(values) ==
    LET keep == {x \in DOMAIN values : values[x][1] > 0}
    IN [x \in keep |-> values[x][1]]

\* value(self.prob.objective): None as soon as a variable has no value
ObjectiveValue(p, values) ==
    IF \E x \in DOMAIN p.objective[1].expr : values[x] = <<>>
    THEN <<>>
    ELSE <<ExprValue(p.objective[1].expr, [x \in DOMAIN values |-> values[x][1]])>>

\* BentoKazeOptimizer.solve.  The db variant, as run_optimizer calls it, returns
\* the status and the positive values: comparing a varValue that is None with 0
\* raises TypeError.  The csv variant, as app.py calls it, returns every
\* variable's value and the objective's value.
Solve ==
    /\ caller = "script" /\ pc = "solve"
    /\ \E o \in SolverOutcomes(prob) :
        /\ varValue' = o.values
        /\ IF variant = "csv"
           THEN /\ raised' = "none"
                /\ locals' = ("total_cost" :> Bound(ObjectiveValue(prob, o.values)))
                                @@ [locals EXCEPT !["results"] = Bound(o.values)]
           ELSE IF \E x \in DOMAIN o.values : o.values[x] = <<>>
           THEN /\ raised' = "TypeError"
                /\ locals' = locals
           ELSE /\ raised' = "none"
                /\ locals' = [locals EXCEPT !["status"] = Bound(o.status),
                                            !["results"] = Bound(Positive(o.values))]
        /\ pc' = Goto("solve", raised')
    /\ UNCHANGED <<inputs, all_data, density_dict, ingredient_vars, prob, called, last_call,
                   files, ret, report>>

\* ------------------------------------------------------ result derivation
\* self.all_data[self.all_data["name"] == ingredient]: the rows of that name
RowsNamed(ingredient) == SelectSeq(all_data, LAMBDA row : row.name = ingredient)

RECURSIVE NatSum(_, _)
NatSum(S, f) ==
    IF S = {} THEN 0
    ELSE LET x == CHOOSE y \in S : TRUE IN f[x] + NatSum(S \ {x}, f)

\* calculate_nutrition_values: .iloc[0] of no row raises IndexError
calculate_nutrition_values(solution) ==
    IF \E x \in DOMAIN solution : RowsNamed(x) = <<>>
    THEN [raised |-> "IndexError", value |-> <<>>]
    ELSE IF \E x \in DOMAIN solution :
                Keys(target_nutrition) \ DOMAIN RowsNamed(x)[1].nut # {}
    THEN [raised |-> "KeyError", value |-> <<>>]
    ELSE [raised |-> "none",
          value |-> [n \in Keys(target_nutrition) |->
                       NatSum(DOMAIN solution,
                              [x \in DOMAIN solution |-> RowsNamed(x)[1].nut[n] * solution[x]])]]

\* calculate_total_volume
calculate_total_volume(solution) ==
    IF \E x \in DOMAIN solution : RowsNamed(x) = <<>>
    THEN [raised |-> "IndexError", value |-> <<>>]
    ELSE IF \E x \in DOMAIN solution : ~Has(density_dict, RowsNamed(x)[1].category)
    THEN [raised |-> "KeyError", value |-> <<>>]
    ELSE [raised |-> "none",
          value |-> SumOver(DOMAIN solution,
                            [x \in DOMAIN solution |->
                                Frac(1, Get(density_dict, RowsNamed(x)[1].category))],
                            solution)]

\* ------------------------------------------------------------ run_optimizer
\* if status == "Optimal": nutrition_values = ...; total_volume = ...
Derive ==
    /\ caller = "script" /\ pc = "derive"
    /\ LET results == locals["results"][1]
           nv == calculate_nutrition_values(results)
           tv == calculate_total_volume(results)
       IN IF locals["status"] # Bound("Optimal")
          THEN /\ locals' = locals
               /\ raised' = "none"
          ELSE IF nv.raised # "none"
          THEN /\ locals' = locals
               /\ raised' = nv.raised
          ELSE IF tv.raised # "none"
          THEN /\ locals' = [locals EXCEPT !["nutrition_values"] = Bound(nv.value)]
               /\ raised' = tv.raised
          ELSE /\ locals' = [locals EXCEPT !["nutrition_values"] = Bound(nv.value),
                                           !["total_volume"] = Bound(tv.value)]
               /\ raised' = "none"
    /\ pc' = Goto("derive", raised')
    /\ UNCHANGED <<inputs, all_data, density_dict, ingredient_vars, prob, varValue,
                   called, last_call, files, ret, report>>

\* export_problem: a format that is neither "mps" nor "lp" is logged and skipped
export_problem(formats) ==
    [raised |-> "none",
     written |-> {formats[i] : i \in {j \in 1..Len(formats) : formats[j] \in {"mps", "lp"}}}]

ExportProblem ==
    /\ caller = "script" /\ pc = "export"
    /\ files' = files \cup export_problem(export_formats).written
    /\ raised' = export_problem(export_formats).raised
    /\ pc' = Goto("export", raised')
    /\ UNCHANGED <<inputs, all_data, density_dict, ingredient_vars, prob, varValue,
                   called, last_call, locals, ret, report>>

\* return status, results, nutrition_values, total_volume: reading a local that
\* was never assigned raises UnboundLocalError
Return ==
    /\ caller = "script" /\ pc = "return"
    /\ IF \E n \in DOMAIN locals : locals[n] = Unbound
       THEN /\ raised' = "UnboundLocalError"
            /\ pc' = "except"
            /\ ret' = ret
       ELSE /\ raised' = "none"
            /\ pc' = "main"
            /\ ret' = Bound(locals)
    /\ UNCHANGED <<inputs, all_data, density_dict, ingredient_vars, prob, varValue,
                   called, last_call, locals, files, report>>

\* except Exception as e: logger.error(...); return None, None, None, None
Except ==
    /\ caller = "script" /\ pc = "except"
    /\ ret' = Bound(NoLocals)
    /\ pc' = "main"
    /\ UNCHANGED <<inputs, all_data, density_dict, ingredient_vars, prob, varValue,
                   called, last_call, raised, locals, files, report>>

\* main: if status and results: generate_markdown_report(...)
Main ==
    /\ caller = "script" /\ pc = "main"
    /\ report' = (/\ ret[1]["status"] # <<>>
                  /\ ret[1]["results"] # <<>>
                  /\ DOMAIN ret[1]["results"][1] # {})
    /\ pc' = "done"
    /\ UNCHANGED <<inputs, all_data, density_dict, ingredient_vars, prob, varValue,
                   called, last_call, raised, locals, files, ret>>

Next ==
    \/ Construct
    \/ AddNutritionalConstraints
    \/ AddVolumeConstraint
    \/ AddCategoryMassConstraints
    \/ SetObjective
    \/ Solve
    \/ Derive
    \/ ExportProblem
    \/ Return
    \/ Except
    \/ Main

Spec == Init /\ [][Next]_vars

\* ------------------------------------------------------------------ claims
ConstraintOps == {"nutrition", "volume", "category"}
ValidOperators == {">=", "<="}
VolumeName == LpName(IF variant = "db" THEN T_TotalVolume ELSE T_max_volume)
Built == pc # "new"
\* the rows of the catalog that carry the given ingredient name
RowsOf(name) == {i \in 1..Len(all_data) : all_data[i].name = name}
UniqueNames == \A i \in 1..Len(all_data) : RowsOf(all_data[i].name) = {i}
\* the nutrient keys that are declared with an operator
Declared == {NutrientList[i].nutrient : i \in 1..Len(NutrientList)}
\* the unit prices of the rows in S, added up
RECURSIVE PriceTotal(_)
PriceTotal(S) ==
    IF S = {} THEN 0
    ELSE LET i == CHOOSE j \in S : TRUE IN all_data[i].unit_price + PriceTotal(S \ {i})

\* C1: in the volume constraint, the coefficient of every catalog ingredient's
\* quantity is 1 / density(category(ingredient)), and the constraint is
\* 'sum <= max_volume'.  (Stated for catalogs whose names are unique: rows
\* that share a name share a variable, which is C12's matter.)
C1_VolumeCoefficientIsInverseDensity ==
    (Built /\ UniqueNames /\ Has(prob.constraints, VolumeName)) =>
        LET c == Get(prob.constraints, VolumeName)
        IN /\ c.sense = "<="
           /\ c.rhs = max_volume
           /\ \A i \in 1..Len(all_data) :
                 Coef(c.expr, VarOf(all_data[i]))
                     = Frac(1, Get(density_dict, all_data[i].category))

\* C2: once add_nutritional_constraints has returned, every nutrient key of
\* target_nutrition has its constraint: the sum of nutrient(i) * quantity(i),
\* compared with the nutrient's target by the nutrient's declared operator.
\* (Stated for target specifications that declare an operator for exactly the
\* nutrients they give a target for.)
C2_EveryTargetNutrientConstrained ==
    ("nutrition" \in called /\ Declared = Keys(target_nutrition)) =>
        \A n \in Keys(target_nutrition) :
            \E i \in 1..Len(NutrientList) :
                /\ NutrientList[i].nutrient = n
                /\ Has(prob.constraints, LpName(NutrientList[i].name))
                /\ Get(prob.constraints, LpName(NutrientList[i].name))
                       = [expr |-> NutrientSum(n), sense |-> NutrientList[i].operator,
                          rhs |-> Get(target_nutrition, n)]

\* C3: with an operator that is neither '>=' nor '<=' in the operators mapping,
\* add_nutritional_constraints never returns normally.
C3_UnknownOperatorRaises ==
    (variant = "db" /\ \E i \in 1..Len(constraints) : constraints[i].v \notin ValidOperators)
        => "nutrition" \notin called

\* C4: once add_category_mass_constraints has returned, a category has a mass
\* constraint exactly when it occurs among the catalog's ingredients, and that
\* constraint is 'sum of the category's quantities >= min_mass_per_category',
\* the sum never empty.  (Stated for catalogs that hold an ingredient and whose
\* categories all have a density.)
C4_MassConstraintPerCatalogCategory ==
    ("category" \in called /\ all_data # <<>>
        /\ \A i \in 1..Len(all_data) : Has(density_dict, all_data[i].category)) =>
        \A cat \in Categories :
            LET occurs == \E i \in 1..Len(all_data) : all_data[i].category = cat
                name == LpName(CategoryName(cat))
            IN /\ Has(prob.constraints, name) <=> occurs
               /\ Has(prob.constraints, name) =>
                     /\ Get(prob.constraints, name)
                            = [expr |-> CategorySum(cat), sense |-> ">=",
                               rhs |-> min_mass_per_category]
                     /\ DOMAIN Get(prob.constraints, name).expr # {}

\* C5: the problem has at most one objective, and whenever set_objective was the
\* last call (the first time or again) the objective is the sum of
\* unit_price(i) * quantity(i), to be minimised: a second call replaces it.
C5_ObjectiveSetOnce ==
    /\ Len(prob.objective) <= 1
    /\ prob.sense = "LpMinimize"
    /\ "objective" \in called =>
          /\ Len(prob.objective) = 1
          /\ DOMAIN prob.objective[1].expr \subseteq {VarOf(all_data[i]) : i \in 1..Len(all_data)}
          /\ \A i \in 1..Len(all_data) :
                Coef(prob.objective[1].expr, VarOf(all_data[i]))
                    = FracOf(PriceTotal(RowsOf(all_data[i].name)))
\* set_objective has been called a second time, on a catalog with ingredients
C5_Witness ==
    /\ last_call = [op |-> "objective", again |-> TRUE]
    /\ all_data # <<>>
    /\ Len(prob.constraints) > 0

\* C6: a constraint-adding method called again, after it has returned normally
\* once, succeeds and leaves the problem's constraints as they were.
C6_ConstraintMethodsIdempotent ==
    [][\A op \in ConstraintOps :
          (op \in called /\ last_call' = [op |-> op, again |-> TRUE] /\ pc = "ready"
              /\ all_data # <<>>)
              => (raised' = "none" /\ prob'.constraints = prob.constraints)]_vars

\* C7: when solve returned a status other than Optimal, run_optimizer skips the
\* result derivation, raises nothing, and returns that status.
C7_NonOptimalStatusReturned ==
    (pc = "done" /\ locals["status"] # Unbound /\ locals["status"] # Bound("Optimal")) =>
        /\ raised = "none"
        /\ locals["nutrition_values"] = Unbound
        /\ locals["total_volume"] = Unbound
        /\ ret[1]["status"] = locals["status"]

\* C8: when solve returns Infeasible or Unbounded, the assignment is empty.
C8_NoAssignmentWhenInfeasible ==
    locals["status"] \in {Bound("Infeasible"), Bound("Unbounded")} =>
        DOMAIN locals["results"][1] = {}

\* C9: after construction, unless a call has aborted with an error, every
\* ingredient of the items table has a decision variable and appears in the
\* objective, the volume constraint and its category's mass constraint, as far
\* as they have been built.
C9_NoIngredientDropped ==
    (variant = "db" /\ Built /\ raised = "none") =>
        \A i \in 1..Len(tables.items) :
            LET item == tables.items[i]
                x == LpName(item.name)
                mass == LpName(CategoryName(item.category))
            IN /\ Has(ingredient_vars, item.name)
               /\ "objective" \in called => x \in DOMAIN prob.objective[1].expr
               /\ "volume" \in called =>
                     x \in DOMAIN Get(prob.constraints, VolumeName).expr
               /\ "category" \in called =>
                     /\ Has(prob.constraints, mass)
                     /\ x \in DOMAIN Get(prob.constraints, mass).expr

\* C10: export_problem never returns normally when export_formats holds a format
\* other than 'lp' or 'mps'.
C10_UnsupportedFormatRaises ==
    (caller = "script" /\ pc = "return") =>
        \A i \in 1..Len(export_formats) : export_formats[i] \in {"lp", "mps"}

\* the catalog the constructor is given: the items table (db), the data file (csv)
CatalogInput == IF variant = "db" THEN tables.items ELSE tables.data

\* C11: from a catalog without any ingredient no optimizer is constructed (the
\* constructor raises DataIntegrityError), so no problem without decision
\* variables is ever built.
C11_EmptyCatalogRejected ==
    CatalogInput = <<>> => ~Built

\* C12: after construction there is exactly one decision variable per catalog
\* row, keyed by the row's name, continuous with lower bound 0; a catalog in
\* which two rows share a name is never constructed (DuplicateVariableError).
C12_OneVariablePerRow ==
    Built =>
        /\ UniqueNames
        /\ Len(ingredient_vars) = Len(all_data)
        /\ \A i \in 1..Len(all_data) :
              /\ Has(ingredient_vars, all_data[i].name)
              /\ Get(ingredient_vars, all_data[i].name)
                    = [name |-> LpName(all_data[i].name), lowBound |-> 0,
                       cat |-> "Continuous"]

\* run_optimizer got Optimal from solve and has been through the derivation
DerivedOptimal ==
    /\ caller = "script"
    /\ locals["status"] = Bound("Optimal")
    /\ pc \notin {"solve", "derive"}
\* the solved value of every variable of the problem
SolvedValues == [x \in DOMAIN varValue |-> varValue[x][1]]

\* C13: for an Optimal solution, calculate_nutrition_values returns totals, and
\* for every nutrient with a target and the operator '>=' (or '<=') the total
\* is at least (or at most) the target.
C13_NutritionTotalsMeetTargets ==
    DerivedOptimal =>
        /\ locals["nutrition_values"] # Unbound
        /\ \A i \in 1..Len(constraints) :
              LET n == constraints[i].k
                  total == locals["nutrition_values"][1][n]
              IN (Has(target_nutrition, n) /\ constraints[i].v \in ValidOperators) =>
                    IF constraints[i].v = ">="
                    THEN total >= Get(target_nutrition, n)
                    ELSE total <= Get(target_nutrition, n)

\* C14: for the assignment solve returned with status Optimal,
\* calculate_total_volume returns the sum of quantity / density(category), which
\* is the value of the TotalVolume constraint's left-hand side at the solved
\* values, and is <= max_volume.
C14_TotalVolumeIsConstraintLhs ==
    (caller = "script" /\ locals["status"] = Bound("Optimal")) =>
        LET r == calculate_total_volume(locals["results"][1])
        IN /\ r.raised = "none"
           /\ r.value = ExprValue(Get(prob.constraints, VolumeName).expr, SolvedValues)
           /\ FracLeq(r.value, FracOf(max_volume))
           /\ (pc \notin {"solve", "derive"} /\ locals["nutrition_values"] # Unbound)
                  => locals["total_volume"] = Bound(r.value)

\* the value solve reported for variable x: <<v>>, or <<>> for None
Reported(x) ==
    IF variant = "db" THEN <<locals["results"][1][x]>> ELSE locals["results"][1][x]

\* C15: the assignment solve returned holds exactly the variables whose solved
\* value is greater than 0, each with that value, and every ingredient's
\* variable that is absent from it has the value 0.  (Stated for solved values
\* that satisfy every constraint of the problem, as an Optimal solution does.)
C15_AssignmentIsPositiveValues ==
    (/\ caller = "script" /\ locals["results"] # Unbound
     /\ \A x \in DOMAIN varValue : Len(varValue[x]) = 1
     /\ Feasible(prob, SolvedValues)) =>
        LET results == locals["results"][1]
        IN /\ \A x \in DOMAIN results :
                 /\ Reported(x) = varValue[x]
                 /\ Len(Reported(x)) = 1
                 /\ Reported(x)[1] > 0
           /\ DOMAIN results
                 = {x \in DOMAIN varValue : Len(varValue[x]) = 1 /\ varValue[x][1] > 0}
           /\ \A i \in 1..Len(ingredient_vars) :
                 LET x == ingredient_vars[i].v.name
                 IN x \notin DOMAIN results =>
                       (x \in DOMAIN varValue /\ varValue[x] = <<0>>)

====
